---------------------------- MODULE Spec2Model ----------------------------
(***************************************************************************)
(* A model of bot.py: the bounty board of the chat bot.                    *)
(*                                                                         *)
(* Text is modelled as Python models it: a str is a sequence of            *)
(* one-character strings.  A bounty is the dict the code builds, an        *)
(* ordered sequence of <<key, value>> pairs; the store is the list of      *)
(* them; the file holds the text json.dump wrote.  Decimal values are      *)
(* (sign, coefficient, exponent) triples as in Python's decimal module.    *)
(***************************************************************************)
EXTENDS Integers, Sequences, FiniteSets, TLC

(***************************************************************************)
(* str operations                                                          *)
(***************************************************************************)
UpperCase == <<"A","B","C","D","E","F","G","H","I","J","K","L","M",
               "N","O","P","Q","R","S","T","U","V","W","X","Y","Z">>
LowerCase == <<"a","b","c","d","e","f","g","h","i","j","k","l","m",
               "n","o","p","q","r","s","t","u","v","w","x","y","z">>
DigitChars == <<"0","1","2","3","4","5","6","7","8","9">>

Range(s) == {s[i] : i \in DOMAIN s}

\* str.lower(), one character
LowerChar(c) ==
    IF c \in Range(UpperCase)
    THEN LowerCase[CHOOSE i \in DOMAIN UpperCase : UpperCase[i] = c]
    ELSE c

\* str.lower()
Lower(s) == [i \in DOMAIN s |-> LowerChar(s[i])]

\* the characters str.strip() removes
IsSpace(c) == c \in {" ", "\n", "\t"}

\* str.strip()
Strip(s) ==
    LET keep == {i \in DOMAIN s : ~IsSpace(s[i])}
    IN  IF keep = {} THEN <<>>
        ELSE LET lo == CHOOSE i \in keep : \A j \in keep : i <= j
                 hi == CHOOSE i \in keep : \A j \in keep : j <= i
             IN  SubSeq(s, lo, hi)

\* str.startswith(prefix)
StartsWith(s, prefix) ==
    /\ Len(prefix) <= Len(s)
    /\ SubSeq(s, 1, Len(prefix)) = prefix

\* sub in s
Contains(sub, s) ==
    \E i \in 0..(Len(s) - Len(sub)) : SubSeq(s, i + 1, i + Len(sub)) = sub

\* the position of the last occurrence of character c in s, 0 when absent
LastIndex(s, c) ==
    LET at == {i \in DOMAIN s : s[i] = c}
    IN  IF at = {} THEN 0 ELSE CHOOSE i \in at : \A j \in at : j <= i

\* the position of the first occurrence of a character of cs in s, 0 when absent
FirstIndex(s, cs) ==
    LET at == {i \in DOMAIN s : s[i] \in cs}
    IN  IF at = {} THEN 0 ELSE CHOOSE i \in at : \A j \in at : i <= j

\* s.rsplit(c, maxsplit)
RECURSIVE RSplit(_, _, _)
RSplit(s, c, maxsplit) ==
    LET i == LastIndex(s, c)
    IN  IF maxsplit = 0 \/ i = 0 THEN <<s>>
        ELSE Append(RSplit(SubSeq(s, 1, i - 1), c, maxsplit - 1),
                    SubSeq(s, i + 1, Len(s)))

\* s.split(c)[-1]
AfterLast(s, c) == SubSeq(s, LastIndex(s, c) + 1, Len(s))

\* s.replace(c, '')
RECURSIVE Remove(_, _)
Remove(s, c) ==
    IF s = <<>> THEN <<>>
    ELSE IF Head(s) = c THEN Remove(Tail(s), c)
    ELSE <<Head(s)>> \o Remove(Tail(s), c)

(***************************************************************************)
(* decimal.Decimal                                                         *)
(***************************************************************************)
IsDigits(s) == \A i \in DOMAIN s : s[i] \in Range(DigitChars)

DigitValue(c) == (CHOOSE i \in DOMAIN DigitChars : DigitChars[i] = c) - 1

\* int(digits), 0 for the empty string
RECURSIVE ToNat(_)
ToNat(s) ==
    IF s = <<>> THEN 0
    ELSE 10 * ToNat(SubSeq(s, 1, Len(s) - 1)) + DigitValue(s[Len(s)])

\* str(n) for n >= 0
RECURSIVE NatToStr(_)
NatToStr(n) ==
    IF n < 10 THEN <<DigitChars[n + 1]>>
    ELSE Append(NatToStr(n \div 10), DigitChars[(n % 10) + 1])

RECURSIVE Pow10(_)
Pow10(k) == IF k = 0 THEN 1 ELSE 10 * Pow10(k - 1)

Zeros(k) == [i \in 1..k |-> "0"]

\* the outcome of Decimal(str) on a malformed string: InvalidOperation raised
InvalidOperation == [special |-> "InvalidOperation", sign |-> 0, int |-> 0, exp |-> 0]

\* [-+]?\d+ , the exponent of a numeric string
IsExponent(s) ==
    LET body == IF s # <<>> /\ s[1] \in {"+", "-"} THEN Tail(s) ELSE s
    IN  body # <<>> /\ IsDigits(body)

ExponentValue(s) ==
    IF s[1] = "-" THEN 0 - ToNat(Tail(s))
    ELSE IF s[1] = "+" THEN ToNat(Tail(s))
    ELSE ToNat(s)

\* Decimal(value) for a str: strip, drop underscores, then
\*   [-+]? ( (?=\d|\.\d) \d* (\.\d*)? (E[-+]?\d+)? | Inf(inity)? | s?NaN\d* )
\* case-insensitively.  The value is sign, coefficient and exponent, or a
\* special value, or InvalidOperation.
Decimal(value) ==
    LET Numeric(sign, intp, frac, has_exp, expo) ==
            IF /\ IsDigits(intp) /\ IsDigits(frac)
               /\ (intp # <<>> \/ frac # <<>>)
               /\ (~has_exp \/ IsExponent(expo))
            THEN [special |-> "", sign |-> sign, int |-> ToNat(intp \o frac),
                  exp |-> (IF has_exp THEN ExponentValue(expo) ELSE 0) - Len(frac)]
            ELSE InvalidOperation
        Mantissa(sign, mant, has_exp, expo) ==
            LET dot == FirstIndex(mant, {"."})
            IN  Numeric(sign,
                        IF dot = 0 THEN mant ELSE SubSeq(mant, 1, dot - 1),
                        IF dot = 0 THEN <<>> ELSE SubSeq(mant, dot + 1, Len(mant)),
                        has_exp, expo)
        Unsigned(sign, body) ==
            LET e   == FirstIndex(body, {"e"})
                nan == IF StartsWith(body, <<"s">>) THEN Tail(body) ELSE body
            IN  IF body \in {<<"i","n","f">>, <<"i","n","f","i","n","i","t","y">>}
                THEN [special |-> "Infinity", sign |-> sign, int |-> 0, exp |-> 0]
                ELSE IF /\ StartsWith(nan, <<"n","a","n">>)
                        /\ IsDigits(SubSeq(nan, 4, Len(nan)))
                THEN [special |-> "NaN", sign |-> sign, int |-> 0, exp |-> 0]
                ELSE Mantissa(sign,
                              IF e = 0 THEN body ELSE SubSeq(body, 1, e - 1),
                              e # 0,
                              IF e = 0 THEN <<>> ELSE SubSeq(body, e + 1, Len(body)))
        Signed(text) ==
            LET signed == text # <<>> /\ text[1] \in {"+", "-"}
            IN  Unsigned(IF signed /\ text[1] = "-" THEN 1 ELSE 0,
                         IF signed THEN Tail(text) ELSE text)
    IN  Signed(Lower(Remove(Strip(value), "_")))

DecimalInt(n) == [special |-> "", sign |-> 0, int |-> n, exp |-> 0]

\* the sign of x - y * 10^k for naturals x, y and k, without forming y * 10^k
CompareScaled(x, y, k) ==
    IF k > 9 THEN (IF y > 0 THEN -1 ELSE IF x > 0 THEN 1 ELSE 0)
    ELSE LET q == x \div Pow10(k)
             r == x % Pow10(k)
         IN  IF q < y THEN -1 ELSE IF q > y \/ r > 0 THEN 1 ELSE 0

\* the sign of |a| - |b| for two finite decimals
CompareMagnitude(a, b) ==
    IF a.exp <= b.exp THEN CompareScaled(a.int, b.int, b.exp - a.exp)
    ELSE 0 - CompareScaled(b.int, a.int, a.exp - b.exp)

\* -1, 0 or 1: the sign of a finite decimal (-0 is zero)
Signum(d) == IF d.int = 0 THEN 0 ELSE IF d.sign = 1 THEN -1 ELSE 1

\* the sign of a - b for two finite decimals
CompareFinite(a, b) ==
    IF Signum(a) # Signum(b) THEN (IF Signum(a) < Signum(b) THEN -1 ELSE 1)
    ELSE Signum(a) * CompareMagnitude(a, b)

\* an ordering comparison of a and b raises InvalidOperation when either is NaN
CompareRaises(a, b) == a.special = "NaN" \/ b.special = "NaN"

\* a <= b, when the comparison does not raise
DecimalLe(a, b) ==
    IF a.special = "Infinity" /\ b.special = "Infinity" THEN a.sign >= b.sign
    ELSE IF a.special = "Infinity" THEN a.sign = 1
    ELSE IF b.special = "Infinity" THEN b.sign = 0
    ELSE CompareFinite(a, b) <= 0

\* str(d): Decimal.__str__, scientific notation when the exponent is
\* positive or the value has more than 6 leading fractional zeros
DecimalStr(d) ==
    LET sign == IF d.sign = 1 THEN <<"-">> ELSE <<>>
        Format(digits, leftdigits, dotplace) ==
            LET intpart  == IF dotplace <= 0 THEN <<"0">>
                            ELSE IF dotplace >= Len(digits)
                            THEN digits \o Zeros(dotplace - Len(digits))
                            ELSE SubSeq(digits, 1, dotplace)
                fracpart == IF dotplace <= 0
                            THEN <<".">> \o Zeros(0 - dotplace) \o digits
                            ELSE IF dotplace >= Len(digits) THEN <<>>
                            ELSE <<".">> \o SubSeq(digits, dotplace + 1, Len(digits))
                exp      == IF leftdigits = dotplace THEN <<>>
                            ELSE IF leftdigits > dotplace
                            THEN <<"E", "+">> \o NatToStr(leftdigits - dotplace)
                            ELSE <<"E", "-">> \o NatToStr(dotplace - leftdigits)
            IN  intpart \o fracpart \o exp
        Place(digits, leftdigits) ==
            Format(digits, leftdigits,
                   IF d.exp <= 0 /\ leftdigits > -6 THEN leftdigits ELSE 1)
        Digits(digits) == Place(digits, d.exp + Len(digits))
    IN  IF d.special = "Infinity" THEN sign \o <<"I","n","f","i","n","i","t","y">>
        ELSE IF d.special = "NaN" THEN sign \o <<"N","a","N">>
        ELSE sign \o Digits(NatToStr(d.int))

\* d.quantize(Decimal('0.01')) under the default context (ROUND_HALF_EVEN)
\* for a finite d
Quantize2(d) ==
    IF d.int = 0 THEN [d EXCEPT !.exp = -2]
    ELSE IF d.exp >= -2
    THEN [d EXCEPT !.int = d.int * Pow10(d.exp + 2), !.exp = -2]
    ELSE LET k    == (0 - 2) - d.exp
             unit == Pow10(k)
             q    == d.int \div unit
             r    == d.int % unit
             half == 5 * Pow10(k - 1)
             up   == r > half \/ (r = half /\ q % 2 = 1)
         IN  [d EXCEPT !.int = IF up THEN q + 1 ELSE q, !.exp = -2]

(***************************************************************************)
(* json.dump(data, f, indent=4) and json.loads, for the values the store   *)
(* holds: a list of dicts whose keys and values are str.  A dict is the    *)
(* sequence of its <<key, value>> items in insertion order.                *)
(***************************************************************************)
\* d[key], for a key the dict holds
Get(d, key) == (CHOOSE i \in Range(d) : i[1] = key)[2]

\* json's encoding of one character of a str
EscapeChar(c) ==
    IF c = "\"" THEN <<"\\", "\"">>
    ELSE IF c = "\\" THEN <<"\\", "\\">>
    ELSE IF c = "\n" THEN <<"\\", "n">>
    ELSE IF c = "\t" THEN <<"\\", "t">>
    ELSE <<c>>

RECURSIVE EscapeChars(_)
EscapeChars(s) ==
    IF s = <<>> THEN <<>> ELSE EscapeChar(Head(s)) \o EscapeChars(Tail(s))

\* a str between quotes, its characters as they are
DumpStrRaw(s) == <<"\"">> \o s \o <<"\"">>

\* a str as a JSON string
DumpStr(s) == <<"\"">> \o EscapeChars(s) \o <<"\"">>

Indent(level) == [i \in 1..(4 * level) |-> " "]

\* the items of a dict, one per line at the given level, "," between them
RECURSIVE DumpItems(_, _)
DumpItems(d, level) ==
    IF d = <<>> THEN <<>>
    ELSE Indent(level) \o DumpStr(d[1][1]) \o <<":", " ">> \o DumpStr(d[1][2])
         \o (IF Len(d) > 1 THEN <<",">> ELSE <<>>) \o <<"\n">>
         \o DumpItems(Tail(d), level)

DumpDict(d, level) ==
    IF d = <<>> THEN <<"{", "}">>
    ELSE <<"{", "\n">> \o DumpItems(d, level + 1) \o Indent(level) \o <<"}">>

RECURSIVE DumpElements(_, _)
DumpElements(data, level) ==
    IF data = <<>> THEN <<>>
    ELSE Indent(level) \o DumpDict(data[1], level)
         \o (IF Len(data) > 1 THEN <<",">> ELSE <<>>) \o <<"\n">>
         \o DumpElements(Tail(data), level)

\* json.dumps(data, indent=4)
Dumps(data) ==
    IF data = <<>> THEN <<"[", "]">>
    ELSE <<"[", "\n">> \o DumpElements(data, 1) \o <<"]">>

\* A parse step's result: whether it succeeded, the value and the position
\* after it.
Parsed(value, next) == [ok |-> TRUE, value |-> value, next |-> next]
JSONDecodeError == [ok |-> FALSE, value |-> <<>>, next |-> 0]

\* the first position from i on that holds no JSON whitespace
RECURSIVE SkipWhitespace(_, _)
SkipWhitespace(s, i) ==
    IF i <= Len(s) /\ s[i] \in {" ", "\n", "\t", "\r"}
    THEN SkipWhitespace(s, i + 1) ELSE i

\* the character an escape sequence \c stands for, "" when unknown
Unescape(c) ==
    IF c \in {"\"", "\\", "/"} THEN c
    ELSE IF c = "n" THEN "\n"
    ELSE IF c = "t" THEN "\t"
    ELSE ""

\* the characters of a JSON string from position i (after the opening
\* quote) up to its closing quote
RECURSIVE ParseChars(_, _, _)
ParseChars(s, i, acc) ==
    IF i > Len(s) THEN JSONDecodeError
    ELSE IF s[i] = "\"" THEN Parsed(acc, i + 1)
    ELSE IF s[i] = "\\"
    THEN IF i + 1 > Len(s) \/ Unescape(s[i + 1]) = "" THEN JSONDecodeError
         ELSE ParseChars(s, i + 2, Append(acc, Unescape(s[i + 1])))
    ELSE IF s[i] \in {"\n", "\t"} THEN JSONDecodeError
    ELSE ParseChars(s, i + 1, Append(acc, s[i]))

ParseStr(s, i) ==
    IF i <= Len(s) /\ s[i] = "\"" THEN ParseChars(s, i + 1, <<>>)
    ELSE JSONDecodeError

\* the items of an object from position i (at a key) up to its "}"
RECURSIVE ParseItems(_, _, _)
ParseItems(s, i, acc) ==
    LET Item(key, colon) ==
            LET Value(val, after) ==
                    IF ~val.ok \/ after > Len(s) THEN JSONDecodeError
                    ELSE IF s[after] = "}"
                    THEN Parsed(Append(acc, <<key.value, val.value>>), after + 1)
                    ELSE IF s[after] = ","
                    THEN ParseItems(s, SkipWhitespace(s, after + 1),
                                    Append(acc, <<key.value, val.value>>))
                    ELSE JSONDecodeError
                After(val) == Value(val, SkipWhitespace(s, val.next))
            IN  IF ~key.ok \/ colon > Len(s) \/ s[colon] # ":" THEN JSONDecodeError
                ELSE After(ParseStr(s, SkipWhitespace(s, colon + 1)))
        Key(key) == Item(key, SkipWhitespace(s, key.next))
    IN  Key(ParseStr(s, i))

ParseDict(s, i) ==
    LET Body(first) ==
            IF i > Len(s) \/ s[i] # "{" \/ first > Len(s) THEN JSONDecodeError
            ELSE IF s[first] = "}" THEN Parsed(<<>>, first + 1)
            ELSE ParseItems(s, first, <<>>)
    IN  Body(SkipWhitespace(s, i + 1))

\* the elements of an array from position i (at an element) up to its "]"
RECURSIVE ParseElements(_, _, _)
ParseElements(s, i, acc) ==
    LET Element(elem, after) ==
            IF ~elem.ok \/ after > Len(s) THEN JSONDecodeError
            ELSE IF s[after] = "]" THEN Parsed(Append(acc, elem.value), after + 1)
            ELSE IF s[after] = ","
            THEN ParseElements(s, SkipWhitespace(s, after + 1), Append(acc, elem.value))
            ELSE JSONDecodeError
        After(elem) == Element(elem, SkipWhitespace(s, elem.next))
    IN  After(ParseDict(s, i))

ParseList(s, i) ==
    LET Body(first) ==
            IF i > Len(s) \/ s[i] # "[" \/ first > Len(s) THEN JSONDecodeError
            ELSE IF s[first] = "]" THEN Parsed(<<>>, first + 1)
            ELSE ParseElements(s, first, <<>>)
    IN  Body(SkipWhitespace(s, i + 1))

\* json.loads(content): the list the text denotes, or JSONDecodeError.  Only
\* the JSON the store can hold (a list of dicts of str) is parsed; the
\* files of the model hold nothing else.
Loads(content) ==
    LET Whole(list) ==
            IF list.ok /\ SkipWhitespace(content, list.next) = Len(content) + 1
            THEN list ELSE JSONDecodeError
    IN  Whole(ParseList(content, SkipWhitespace(content, 1)))

(***************************************************************************)
(* Data persistence functions                                              *)
(***************************************************************************)
\* The file BOUNTY_FILE: whether it exists, and its text.
NoFile == [exists |-> FALSE, content |-> <<>>]
FileWith(content) == [exists |-> TRUE, content |-> content]

\* A file's content is its characters in the encoding that open() reads
\* with; a byte that is no character in that encoding stands as itself.
UndecodableByte == "0xFF"

\* What a call did: returned a value, or raised an exception.
Returned(value) == [raised |-> "None", value |-> value]
Raised(exception) == [raised |-> exception, value |-> <<>>]

load_bounties(f) ==
    LET Decoded(loaded) ==
            IF ~loaded.ok THEN Returned(<<>>)             \* json.JSONDecodeError
            ELSE Returned(loaded.value)
    IN  IF ~f.exists THEN Returned(<<>>)                  \* FileNotFoundError
        ELSE IF UndecodableByte \in Range(f.content)      \* f.read()
        THEN Raised("UnicodeDecodeError")
        ELSE IF f.content = <<>> THEN Returned(<<>>)      \* not content
        ELSE Decoded(Loads(f.content))

\* save_bounties with the dump left out: the file is opened, and so emptied,
\* and nothing is written
save_bounties_unwritten(data) == FileWith(<<>>)

\* the file after save_bounties(data): open(.., 'w') and json.dump
save_bounties(data) == FileWith(Dumps(data))

(***************************************************************************)
(* Validation functions                                                    *)
(***************************************************************************)
\* None where the code holds a str: the empty sequence, which `not x` treats
\* as it treats None
None == <<>>

\* the dict valid_difficulties
valid_difficulties ==
    { <<<<"e","a","s","y">>, <<"E","a","s","y">>>>,
      <<<<"b","a","s","i","c">>, <<"B","a","s","i","c">>>>,
      <<<<"a","d","v","a","n","c","e","d">>, <<"A","d","v","a","n","c","e","d">>>>,
      <<<<"e","x","p","e","r","t">>, <<"E","x","p","e","r","t">>>>,
      <<<<"m","a","s","t","e","r">>, <<"M","a","s","t","e","r">>>> }

ReMaster == <<"R","e",":","M","a","s","t","e","r">>

\* validate_difficulty returning the key it looked up, not the dict's value
validate_difficulty_key(difficulty_str) ==
    LET lower_str == Lower(difficulty_str)
        found     == {d \in valid_difficulties : d[1] = lower_str}
    IN  IF /\ Contains(<<"r","e">>, lower_str)
           /\ Contains(<<"m","a","s","t","e","r">>, lower_str)
           /\ Contains(<<":">>, lower_str)
        THEN ReMaster
        ELSE IF found = {} THEN None
        ELSE (CHOOSE d \in found : TRUE)[1]

validate_difficulty(difficulty_str) ==
    LET lower_str == Lower(difficulty_str)
        found     == {d \in valid_difficulties : d[1] = lower_str}
    IN  IF /\ Contains(<<"r","e">>, lower_str)
           /\ Contains(<<"m","a","s","t","e","r">>, lower_str)
           /\ Contains(<<":">>, lower_str)
        THEN ReMaster
        ELSE IF found = {} THEN None
        ELSE (CHOOSE d \in found : TRUE)[2]

\* the second component of a validator's result when there is no error
NoError == "None"
\* the first component of a validator's result when there is an error
NoDecimal == [special |-> "None", sign |-> 0, int |-> 0, exp |-> 0]

Failed(error) == [value |-> NoDecimal, error |-> error]
Valid(value) == [value |-> value, error |-> NoError]

\* Decimal('0') <= d <= Decimal(hi) for a d that is not NaN
InRange(d, hi) == DecimalLe(DecimalInt(0), d) /\ DecimalLe(d, DecimalInt(hi))

\* '.' in text and len(text.split('.')[-1]) > places
TooManyPlaces(text, places) ==
    /\ "." \in Range(text)
    /\ Len(AfterLast(text, ".")) > places

\* validate_target without its range check
validate_target_unranged(target_str) ==
    LET Check(target) ==
            IF target = InvalidOperation \/ CompareRaises(DecimalInt(0), target)
            THEN Failed("Target must be a valid number.")
            ELSE IF TooManyPlaces(target_str, 4)
            THEN Failed("Target can have a maximum of 4 decimal places.")
            ELSE Valid(target)
    IN  Check(Decimal(target_str))

validate_target(target_str) ==
    LET Check(target) ==
            IF target = InvalidOperation \/ CompareRaises(DecimalInt(0), target)
            THEN Failed("Target must be a valid number.")
            ELSE IF ~InRange(target, 101)
            THEN Failed("Target must be between 0 and 101.")
            ELSE IF TooManyPlaces(target_str, 4)
            THEN Failed("Target can have a maximum of 4 decimal places.")
            ELSE Valid(target)
    IN  Check(Decimal(target_str))

\* validate_amount returning the amount as parsed, not quantized
validate_amount_unquantized(amount_str) ==
    LET Check(amount_str_cleaned, amount) ==
            IF amount = InvalidOperation \/ CompareRaises(DecimalInt(0), amount)
            THEN Failed("Amount must be a valid number.")
            ELSE IF ~InRange(amount, 1000000)
            THEN Failed("Amount must be between 0 and 1,000,000.")
            ELSE IF TooManyPlaces(amount_str_cleaned, 2)
            THEN Failed("Amount can have a maximum of 2 decimal places.")
            ELSE Valid(amount)
        Cleaned(amount_str_cleaned) ==
            Check(amount_str_cleaned, Decimal(amount_str_cleaned))
    IN  Cleaned(Remove(amount_str, ","))

validate_amount(amount_str) ==
    LET Check(amount_str_cleaned, amount) ==
            IF amount = InvalidOperation \/ CompareRaises(DecimalInt(0), amount)
            THEN Failed("Amount must be a valid number.")
            ELSE IF ~InRange(amount, 1000000)
            THEN Failed("Amount must be between 0 and 1,000,000.")
            ELSE IF TooManyPlaces(amount_str_cleaned, 2)
            THEN Failed("Amount can have a maximum of 2 decimal places.")
            ELSE Valid(Quantize2(amount))
        Cleaned(amount_str_cleaned) ==
            Check(amount_str_cleaned, Decimal(amount_str_cleaned))
    IN  Cleaned(Remove(amount_str, ","))

(***************************************************************************)
(* The state                                                               *)
(***************************************************************************)
VARIABLES
    bounties,   \* the global list `bounties`
    file,       \* the file BOUNTY_FILE
    views,      \* the BountyPaginator views sent so far
    event,      \* the event the last step dispatched to its handler
    sent,       \* what that handler sent to the channel
    tasks       \* the on_message tasks that have not finished

vars == <<bounties, file, views, event, sent, tasks>>

BOUNTIES_PER_PAGE == 10

\* the keys of a bounty dict
K_song_name  == <<"s","o","n","g","_","n","a","m","e">>
K_difficulty == <<"d","i","f","f","i","c","u","l","t","y">>
K_target     == <<"t","a","r","g","e","t">>
K_amount     == <<"a","m","o","u","n","t">>
K_user       == <<"u","s","e","r">>

\* bot.user, by name
BotUser == <<"b","o","t">>

\* An event: on_ready, on_message(message) with the message's author name
\* and content, or a click on a view's button.
Event(handler, author, content, view) ==
    [handler |-> handler, author |-> author, content |-> content, view |-> view]
Message(author, content) == Event("on_message", author, content, 0)
Click(button, view) == Event(button, <<>>, <<>>, view)

\* What a handler sent: the kind of message and the text put into it.
Reply(kind, detail) == [kind |-> kind, detail |-> detail]
NoReply == Reply("nothing", <<>>)

(***************************************************************************)
(* BountyPaginator                                                         *)
(***************************************************************************)
\* self.bounties: __init__ keeps the list it is given, not a copy, and
\* on_message passes the global list, which is only ever changed in place.
ViewBounties(view) == bounties

\* update_buttons taking total_pages for the index of the last page
update_buttons_past_last(view) ==
    [view EXCEPT !.previous_disabled = (view.current_page = 0),
                 !.next_disabled = (view.current_page = view.total_pages)]

\* update_buttons: the view's two buttons are its children from
\* View.__init__ on
update_buttons(view) ==
    [view EXCEPT !.previous_disabled = (view.current_page = 0),
                 !.next_disabled = (view.current_page = view.total_pages - 1)]

\* BountyPaginator(bounties_data) with len(...) // BOUNTIES_PER_PAGE + 1 pages
BountyPaginatorFloor(bounties_data) ==
    update_buttons([current_page      |-> 0,
                    total_pages       |-> Len(bounties_data) \div BOUNTIES_PER_PAGE + 1,
                    previous_disabled |-> FALSE,
                    next_disabled     |-> FALSE])

\* BountyPaginator(bounties_data)
BountyPaginator(bounties_data) ==
    update_buttons([current_page      |-> 0,
                    total_pages       |-> (Len(bounties_data) - 1) \div BOUNTIES_PER_PAGE + 1,
                    previous_disabled |-> FALSE,
                    next_disabled     |-> FALSE])

\* data[start:end]
Slice(data, start, end) ==
    LET hi == IF end < Len(data) THEN end ELSE Len(data)
    IN  IF start >= hi THEN <<>> ELSE SubSeq(data, start + 1, hi)

\* bounty.get(key, default)
GetOr(d, key, default) ==
    IF \E i \in Range(d) : i[1] = key THEN Get(d, key) ELSE default

\* the cells of one table row
Row(bounty) ==
    LET name == Get(bounty, K_song_name)
    IN  << IF Len(name) > 30 THEN SubSeq(name, 1, 27) \o <<".",".",".">> ELSE name,
           GetOr(bounty, K_difficulty, <<"N","/","A">>),
           Get(bounty, K_target),
           Get(bounty, K_amount),
           Get(bounty, K_user) >>

\* the bounties the view's current page holds
current_bounties(view, data) ==
    Slice(data, view.current_page * BOUNTIES_PER_PAGE,
          view.current_page * BOUNTIES_PER_PAGE + BOUNTIES_PER_PAGE)

\* get_page_content: the rows of the current page and the footer's numbers
\* (the fixed-width layout of the table is not modelled)
get_page_content(view, data) ==
    LET page == current_bounties(view, data)
    IN  [rows   |-> [i \in DOMAIN page |-> Row(page[i])],
         footer |-> <<view.current_page + 1, view.total_pages>>]

\* previous_page: the handler of the "<" button of view v
previous_page(v) ==
    LET view    == views[v]
        stepped == IF view.current_page > 0
                   THEN [view EXCEPT !.current_page = @ - 1] ELSE view
    IN  /\ views' = [views EXCEPT ![v] = update_buttons(stepped)]
        /\ sent' = Reply("page", get_page_content(views'[v], ViewBounties(views'[v])))
        /\ event' = Click("previous_page", v)
        /\ UNCHANGED <<bounties, file>>

\* next_page without the test of the last page
next_page_unclamped(v) ==
    LET view    == views[v]
        stepped == [view EXCEPT !.current_page = @ + 1]
    IN  /\ views' = [views EXCEPT ![v] = update_buttons(stepped)]
        /\ sent' = Reply("page", get_page_content(views'[v], ViewBounties(views'[v])))
        /\ event' = Click("next_page", v)
        /\ UNCHANGED <<bounties, file>>

\* next_page: the handler of the ">" button of view v
next_page(v) ==
    LET view    == views[v]
        stepped == IF view.current_page < view.total_pages - 1
                   THEN [view EXCEPT !.current_page = @ + 1] ELSE view
    IN  /\ views' = [views EXCEPT ![v] = update_buttons(stepped)]
        /\ sent' = Reply("page", get_page_content(views'[v], ViewBounties(views'[v])))
        /\ event' = Click("next_page", v)
        /\ UNCHANGED <<bounties, file>>

(***************************************************************************)
(* on_message                                                              *)
(***************************************************************************)
ListCommand     == <<"a","q","i","l",">","b","o","u","n","t","y">>
RegisterCommand == <<"b","o","u","n","t","y",">","r","e","g","i","s","t","e","r"," ">>
DeleteCommand   == <<"b","o","u","n","t","y",">","d","e","l","e","t","e"," ">>
HelpCommand     == <<"b","o","u","n","t","y",">","h","e","l","p">>

\* content = message.content.strip()
Content(message) == Strip(message.content)

\* which branch of on_message a message takes
Branch(message) ==
    LET Command(lowered) ==
            IF lowered = ListCommand THEN "list"
            ELSE IF StartsWith(lowered, RegisterCommand) THEN "register"
            ELSE IF StartsWith(lowered, DeleteCommand) THEN "delete"
            ELSE IF lowered = HelpCommand THEN "help"
            ELSE "other"
    IN  IF message.author = BotUser THEN "self"
        ELSE Command(Lower(Content(message)))

\* parts: the register command's parameters, split from the right
RegisterParts(message) ==
    LET Stripped(parts) == [i \in DOMAIN parts |-> Strip(parts[i])]
        Params(content) ==
            Stripped(RSplit(Strip(SubSeq(content, Len(RegisterCommand) + 1,
                                         Len(content))), " ", 3))
    IN  Params(Content(message))

\* the dict appended, with the song name as the command was matched: lowered
NewBountyLowered(song_name, difficulty, target, amount, user) ==
    << <<K_song_name, Lower(song_name)>>,
       <<K_difficulty, difficulty>>,
       <<K_target, DecimalStr(target)>>,
       <<K_amount, DecimalStr(amount)>>,
       <<K_user, user>> >>

\* the dict the register command appends
NewBounty(song_name, difficulty, target, amount, user) ==
    << <<K_song_name, song_name>>,
       <<K_difficulty, difficulty>>,
       <<K_target, DecimalStr(target)>>,
       <<K_amount, DecimalStr(amount)>>,
       <<K_user, user>> >>

\* the register branch with the target validated before the difficulty
RegisterTargetFirst(message) ==
    LET Rejected(kind, detail) ==
            [accepted |-> FALSE, bounty |-> <<>>, reply |-> Reply(kind, detail)]
        Validated(song_name, difficulty, target, amount) ==
            IF target.error # NoError
            THEN Rejected("Invalid Target:", target.error)
            ELSE IF difficulty = None THEN Rejected("Invalid Difficulty.", <<>>)
            ELSE IF amount.error # NoError
            THEN Rejected("Invalid Amount:", amount.error)
            ELSE [accepted |-> TRUE,
                  bounty   |-> NewBounty(song_name, difficulty, target.value,
                                         amount.value, message.author),
                  reply    |-> Reply("Bounty registered for", song_name)]
        Split(parts) ==
            IF Len(parts) < 4 THEN Rejected("Invalid Format.", <<>>)
            ELSE IF parts[1] = <<>> THEN Rejected("Song name cannot be empty.", <<>>)
            ELSE Validated(parts[1], validate_difficulty(parts[2]),
                           validate_target(parts[3]), validate_amount(parts[4]))
    IN  Split(RegisterParts(message))

\* The register branch up to its send: the reply, and the bounty appended
\* (accepted) or not.
Register(message) ==
    LET Rejected(kind, detail) ==
            [accepted |-> FALSE, bounty |-> <<>>, reply |-> Reply(kind, detail)]
        Validated(song_name, difficulty, target, amount) ==
            IF difficulty = None THEN Rejected("Invalid Difficulty.", <<>>)
            ELSE IF target.error # NoError
            THEN Rejected("Invalid Target:", target.error)
            ELSE IF amount.error # NoError
            THEN Rejected("Invalid Amount:", amount.error)
            ELSE [accepted |-> TRUE,
                  bounty   |-> NewBounty(song_name, difficulty, target.value,
                                         amount.value, message.author),
                  reply    |-> Reply("Bounty registered for", song_name)]
        Split(parts) ==
            IF Len(parts) < 4 THEN Rejected("Invalid Format.", <<>>)
            ELSE IF parts[1] = <<>> THEN Rejected("Song name cannot be empty.", <<>>)
            ELSE Validated(parts[1], validate_difficulty(parts[2]),
                           validate_target(parts[3]), validate_amount(parts[4]))
    IN  Split(RegisterParts(message))

\* song_query
DeleteQuery(message) ==
    LET Query(content) ==
            Lower(Strip(SubSeq(content, Len(DeleteCommand) + 1, Len(content))))
    IN  Query(Content(message))

\* list.remove(x) taken for list.pop(0)
ListRemoveHead(data, x) == Tail(data)

\* list.remove(x): the list without its first element equal to x
ListRemove(data, x) ==
    LET i == CHOOSE k \in DOMAIN data :
                 data[k] = x /\ \A j \in 1..(k - 1) : data[j] # x
    IN  SubSeq(data, 1, i - 1) \o SubSeq(data, i + 1, Len(data))

(***************************************************************************)
(* The events of the model                                                 *)
(***************************************************************************)
MaxBounties == 2    \* register commands are dispatched while the list is shorter
MaxViews == 1       \* list commands are dispatched while fewer views exist

Al == <<"a","l">>
Bo == <<"b","o">>
Users == {Al, Bo}

\* A register command as a user types it: the command word, the song name,
\* the blanks after it, and the three fields.
Typed(command, song_name, gap, difficulty, target, amount) ==
    [command |-> command, song_name |-> song_name, gap |-> gap,
     difficulty |-> difficulty, target |-> target, amount |-> amount]

TypedText(t) ==
    t.command \o t.song_name \o t.gap \o t.difficulty \o <<" ">> \o t.target
        \o <<" ">> \o t.amount

\* register commands whose fields are all valid
ValidTyped ==
    { Typed(<<"b","o","u","n","t","y",">","r","e","g","i","s","t","e","r"," ">>, <<"A","b">>, <<" ">>, <<"M","a","s","t","e","r">>, <<"1","0","0",".","0","0","0","0">>, <<"1","5","0",".","0","0">>),
      Typed(<<" "," ","B","o","u","n","t","y",">","R","e","g","i","s","t","e","r"," ">>, <<"a","b"," ","c">>, <<" "," ">>, <<"r","e",":","m","a","s","t","e","r">>, <<"1","e","-","5">>, <<"1",",","0","0","0">>),
      Typed(<<"b","o","u","n","t","y",">","r","e","g","i","s","t","e","r"," ">>, <<"A","b">>, <<" ">>, <<"E","X","P","E","R","T">>, <<"1",".","5","e","-","4">>, <<"1","e","-","3">>),
      Typed(<<"b","o","u","n","t","y",">","r","e","g","i","s","t","e","r"," ">>, <<"a","\"","\\">>, <<" ">>, <<"b","a","s","i","c">>, <<"0">>, <<"1","0","0","0","0","0","0">>) }

\* register commands with one or more invalid fields
InvalidTyped ==
    { Typed(<<"b","o","u","n","t","y",">","r","e","g","i","s","t","e","r"," ">>, <<"A","b">>, <<" ">>, <<"H","a","r","d">>, <<"1","0","0",".","0","0","0","0">>, <<"1","5","0",".","0","0">>),
      Typed(<<"b","o","u","n","t","y",">","r","e","g","i","s","t","e","r"," ">>, <<"A","b">>, <<" ">>, <<"M","a","s","t","e","r">>, <<"1","0","2">>, <<"1","5","0",".","0","0">>),
      Typed(<<"b","o","u","n","t","y",">","r","e","g","i","s","t","e","r"," ">>, <<"A","b">>, <<" ">>, <<"M","a","s","t","e","r">>, <<"1",".","0","0","0","0","5">>, <<"1","5","0",".","0","0">>),
      Typed(<<"b","o","u","n","t","y",">","r","e","g","i","s","t","e","r"," ">>, <<"A","b">>, <<" ">>, <<"M","a","s","t","e","r">>, <<"a","b","c">>, <<"1","5","0",".","0","0">>),
      Typed(<<"b","o","u","n","t","y",">","r","e","g","i","s","t","e","r"," ">>, <<"A","b">>, <<" ">>, <<"M","a","s","t","e","r">>, <<"N","a","N">>, <<"1","5","0",".","0","0">>),
      Typed(<<"b","o","u","n","t","y",">","r","e","g","i","s","t","e","r"," ">>, <<"A","b">>, <<" ">>, <<"M","a","s","t","e","r">>, <<"1","0","0",".","0","0","0","0">>, <<"1","2",".","3","4","5">>),
      Typed(<<"b","o","u","n","t","y",">","r","e","g","i","s","t","e","r"," ">>, <<"A","b">>, <<" ">>, <<"M","a","s","t","e","r">>, <<"1","0","0",".","0","0","0","0">>, <<"1","0","0","0","0","0","1">>),
      Typed(<<"b","o","u","n","t","y",">","r","e","g","i","s","t","e","r"," ">>, <<"A","b">>, <<" ">>, <<"M","a","s","t","e","r">>, <<"1","0","0",".","0","0","0","0">>, <<"x">>),
      Typed(<<"b","o","u","n","t","y",">","r","e","g","i","s","t","e","r"," ">>, <<"A","b">>, <<" ">>, <<"H","a","r","d">>, <<"1","0","2">>, <<"1","2",".","3","4","5">>),
      Typed(<<"b","o","u","n","t","y",">","r","e","g","i","s","t","e","r"," ">>, <<"A","b">>, <<" ">>, <<"M","a","s","t","e","r">>, <<"-","1">>, <<"x">>) }

\* register commands with fewer than four fields
TooFewFields ==
    { <<"b","o","u","n","t","y",">","r","e","g","i","s","t","e","r"," ","A","b"," ","M","a","s","t","e","r"," ","1","0","0",".","0","0","0","0">>,
      <<"b","o","u","n","t","y",">","r","e","g","i","s","t","e","r"," ","A","b">> }

\* delete commands: a query in two songs, in one, in none, and no query
DeleteCommands ==
    { <<"b","o","u","n","t","y",">","d","e","l","e","t","e"," ","a","b">>,
      <<"B","O","U","N","T","Y",">","D","E","L","E","T","E"," "," ","C"," ">>,
      <<"b","o","u","n","t","y",">","d","e","l","e","t","e"," ","q">>,
      <<"b","o","u","n","t","y",">","d","e","l","e","t","e"," "," ">> }

\* the list and help commands, and messages that are no command
OtherContents ==
    { <<"a","q","i","l",">","b","o","u","n","t","y">>,
      <<" ","A","Q","I","L",">","B","o","u","n","t","y">>,
      <<"b","o","u","n","t","y",">","h","e","l","p">>,
      <<"b","o","u","n","t","y",">","r","e","g","i","s","t","e","r">>,
      <<"h","e","l","l","o">> }

\* what Al sends: everything
AlContents ==
    {TypedText(t) : t \in ValidTyped \cup InvalidTyped}
        \cup TooFewFields \cup DeleteCommands \cup OtherContents

\* what Bo sends: a register command Al sends too, two deletes and a list
BoContents ==
    { <<"b","o","u","n","t","y",">","r","e","g","i","s","t","e","r"," ","A","b"," ","M","a","s","t","e","r"," ","1","0","0",".","0","0","0","0"," ","1","5","0",".","0","0">>,
      <<"b","o","u","n","t","y",">","d","e","l","e","t","e"," ","a","b">>,
      <<"b","o","u","n","t","y",">","d","e","l","e","t","e"," ","q">>,
      <<"a","q","i","l",">","b","o","u","n","t","y">> }

\* the bot's own messages reach on_message too
BotContents ==
    { <<"T","h","e","r","e"," ","a","r","e"," ","c","u","r","r","e","n","t","l","y"," ","n","o"," ","a","c","t","i","v","e"," ","b","o","u","n","t","i","e","s",".">>,
      <<"a","q","i","l",">","b","o","u","n","t","y">> }

Messages ==
    {Message(Al, c) : c \in AlContents}
        \cup {Message(Bo, c) : c \in BoContents}
        \cup {Message(BotUser, c) : c \in BotContents}

\* Files an earlier run of the program can have left: none, an empty one, a
\* saved list, and a list whose writing was cut short.
StoredBounty ==
    NewBounty(<<"A","b">>, <<"M","a","s","t","e","r">>, Decimal(<<"1","0","0",".","0","0","0","0">>),
              Quantize2(Decimal(<<"1","5","0",".","0","0">>)), Al)

InitFiles ==
    { NoFile,
      FileWith(<<>>),
      save_bounties(<<>>),
      save_bounties(<<StoredBounty>>),
      FileWith(SubSeq(Dumps(<<StoredBounty>>), 1, 40)) }

\* on_message's reading of each message of the model depends on the message
\* alone: it is computed once, here, and looked up by the actions.
Dispatch == [m \in Messages |-> Branch(m)]
Registration ==
    [m \in {n \in Messages : Branch(n) = "register"} |-> Register(m)]
song_query ==
    [m \in {n \in Messages : Branch(n) = "delete"} |-> DeleteQuery(m)]

(***************************************************************************)
(* The handlers                                                            *)
(***************************************************************************)
\* message.author == bot.user: return
SelfMessage(message) ==
    /\ Dispatch[message] = "self"
    /\ event' = message
    /\ sent' = NoReply
    /\ UNCHANGED <<bounties, file, views>>

\* the list command putting the newest bounty first, in place
ListBountiesNewestFirst(message) ==
    /\ Dispatch[message] = "list"
    /\ event' = message
    /\ bounties' = [i \in DOMAIN bounties |-> bounties[Len(bounties) + 1 - i]]
    /\ IF bounties = <<>>
       THEN /\ sent' = Reply("There are currently no active bounties.", <<>>)
            /\ UNCHANGED views
       ELSE LET paginator == BountyPaginator(bounties')
            IN  /\ views' = Append(views, paginator)
                /\ sent' = Reply("page", get_page_content(paginator, bounties'))
    /\ UNCHANGED file

\* the list command
ListBounties(message) ==
    /\ Dispatch[message] = "list"
    /\ event' = message
    /\ IF bounties = <<>>
       THEN /\ sent' = Reply("There are currently no active bounties.", <<>>)
            /\ UNCHANGED views
       ELSE LET paginator == BountyPaginator(bounties)
            IN  /\ views' = Append(views, paginator)
                /\ sent' = Reply("page", get_page_content(paginator, ViewBounties(paginator)))
    /\ UNCHANGED <<bounties, file>>

\* the register command
RegisterBounty(message) ==
    LET Do(r) ==
            /\ sent' = r.reply
            /\ IF r.accepted
               THEN /\ bounties' = Append(bounties, r.bounty)
                    /\ file' = save_bounties(bounties')
               ELSE UNCHANGED <<bounties, file>>
    IN  /\ Dispatch[message] = "register"
        /\ event' = message
        /\ Do(Registration[message])
        /\ UNCHANGED views

\* user_matches cut to its first match
UserMatchesFirst(message, data) ==
    LET Match(b) == /\ Contains(song_query[message], Lower(Get(b, K_song_name)))
                    /\ Get(b, K_user) = message.author
        First(matches) == IF matches = <<>> THEN <<>> ELSE <<matches[1]>>
    IN  First(SelectSeq(data, Match))

\* user_matches without the test of the record's user
UserMatchesAnyone(message, data) ==
    LET Match(b) == Contains(song_query[message], Lower(Get(b, K_song_name)))
    IN  SelectSeq(data, Match)

\* user_matches
UserMatches(message, data) ==
    LET Match(b) == /\ Contains(song_query[message], Lower(Get(b, K_song_name)))
                    /\ Get(b, K_user) = message.author
    IN  SelectSeq(data, Match)

\* the delete command
DeleteBounty(message) ==
    LET Do(user_matches) ==
            IF song_query[message] = <<>>
            THEN /\ sent' = Reply("Invalid Format. Please provide a song name to delete.", <<>>)
                 /\ UNCHANGED <<bounties, file>>
            ELSE IF user_matches = <<>>
            THEN /\ sent' = Reply("No bounty found matching that name under your user.", <<>>)
                 /\ UNCHANGED <<bounties, file>>
            ELSE IF Len(user_matches) > 1
            THEN /\ sent' = Reply("Found multiple bounties matching your query.",
                                  [i \in DOMAIN user_matches |->
                                       Get(user_matches[i], K_song_name)])
                 /\ UNCHANGED <<bounties, file>>
            ELSE /\ bounties' = ListRemove(bounties, user_matches[1])
                 /\ file' = save_bounties(bounties')
                 /\ sent' = Reply("Successfully deleted bounty:",
                                  Get(user_matches[1], K_song_name))
    IN  /\ Dispatch[message] = "delete"
        /\ event' = message
        /\ Do(UserMatches(message, bounties))
        /\ UNCHANGED views

\* the help command
BountyHelp(message) ==
    /\ Dispatch[message] = "help"
    /\ event' = message
    /\ sent' = Reply("Bounty Bot Commands:", <<>>)
    /\ UNCHANGED <<bounties, file, views>>

\* any other message: on_message does nothing
OtherMessage(message) ==
    /\ Dispatch[message] = "other"
    /\ event' = message
    /\ sent' = NoReply
    /\ UNCHANGED <<bounties, file, views>>

(***************************************************************************)
(* on_message as tasks of the event loop                                   *)
(***************************************************************************)
\* discord.py runs every call of on_message as a task of one event loop: a
\* task runs alone from where it was created or suspended up to its next
\* await, and there another task may run.
MaxTasks == 2       \* messages are dispatched while fewer tasks are unfinished

\* A task: its message, the statement it is at, the dict it is about to
\* append or remove, and the message it is about to send.
Task(message, pc, bounty, reply) ==
    [message |-> message, pc |-> pc, bounty |-> bounty, reply |-> reply]
NoTask == Task(Event("none", <<>>, <<>>, 0), "none", <<>>, NoReply)
NoTasks == [t \in 1 .. MaxTasks |-> NoTask]

\* the statements of on_message at which a task is suspended, the await of
\* one before remove and append included
SuspendedBeforeMutation == {"none", "start", "send", "append", "remove"}

\* the statements of on_message at which a task is suspended: its first,
\* before the loop runs it, and every await message.channel.send(...)
Suspended == {"none", "start", "send"}

\* the loop runs task t: no other task is between two awaits
Scheduled(t) == \A u \in DOMAIN tasks \ {t} : tasks[u].pc \in Suspended

\* the messages dispatched: the commands that change the store, by two
\* users, and a message of the bot
TaskMessages ==
    { Message(Bo, <<"b","o","u","n","t","y",">","r","e","g","i","s","t","e","r"," ","A","b"," ","M","a","s","t","e","r"," ","1","0","0",".","0","0","0","0"," ","1","5","0",".","0","0">>),
      Message(Al, <<"b","o","u","n","t","y",">","d","e","l","e","t","e"," ","a","b">>),
      Message(Bo, <<"b","o","u","n","t","y",">","d","e","l","e","t","e"," ","a","b">>),
      Message(BotUser, <<"a","q","i","l",">","b","o","u","n","t","y">>) }

\* the register commands among the unfinished tasks
Registering(ts) ==
    {t \in DOMAIN ts : ts[t].pc # "none" /\ Dispatch[ts[t].message] = "register"}

\* discord.py dispatches on_message(message): a task is created
TaskCreated(message) ==
    /\ \E t \in DOMAIN tasks :
          /\ tasks[t].pc = "none"
          /\ \A u \in 1 .. (t - 1) : tasks[u].pc # "none"
          /\ tasks' = [tasks EXCEPT ![t] = Task(message, "start", <<>>, NoReply)]
    /\ event' = message
    /\ UNCHANGED <<bounties, file, views, sent>>

\* on_message from its start up to its first await, append or remove
TaskReads(t) ==
    LET message == tasks[t].message
        At(pc, bounty, reply) ==
            tasks' = [tasks EXCEPT ![t] = Task(message, pc, bounty, reply)]
        List ==
            IF bounties = <<>>
            THEN /\ At("send", <<>>, Reply("There are currently no active bounties.", <<>>))
                 /\ UNCHANGED views
            ELSE /\ views' = Append(views, BountyPaginator(bounties))
                 /\ At("send", <<>>,
                       Reply("page", get_page_content(BountyPaginator(bounties), bounties)))
        Registers(r) ==
            IF r.accepted THEN At("append", r.bounty, r.reply)
            ELSE At("send", <<>>, r.reply)
        Deletes(user_matches) ==
            IF user_matches = <<>>
            THEN At("send", <<>>,
                    Reply("No bounty found matching that name under your user.", <<>>))
            ELSE IF Len(user_matches) > 1
            THEN At("send", <<>>,
                    Reply("Found multiple bounties matching your query.",
                          [i \in DOMAIN user_matches |->
                               Get(user_matches[i], K_song_name)]))
            ELSE At("remove", user_matches[1],
                    Reply("Successfully deleted bounty:",
                          Get(user_matches[1], K_song_name)))
    IN  /\ tasks[t].pc = "start"
        /\ Scheduled(t)
        /\ CASE Dispatch[message] = "list" -> List
             [] Dispatch[message] = "register" ->
                    Registers(Registration[message]) /\ UNCHANGED views
             [] Dispatch[message] = "delete" ->
                    Deletes(UserMatches(message, bounties)) /\ UNCHANGED views
             [] Dispatch[message] = "help" ->
                    At("send", <<>>, Reply("Bounty Bot Commands:", <<>>)) /\ UNCHANGED views
             [] OTHER -> tasks' = [tasks EXCEPT ![t] = NoTask] /\ UNCHANGED views
        /\ UNCHANGED <<bounties, file, event, sent>>

\* bounties.append({...})
TaskAppends(t) ==
    /\ tasks[t].pc = "append"
    /\ Scheduled(t)
    /\ bounties' = Append(bounties, tasks[t].bounty)
    /\ tasks' = [tasks EXCEPT ![t].pc = "save"]
    /\ UNCHANGED <<file, views, event, sent>>

\* bounties.remove(bounty_to_delete): ValueError, which ends the task, when
\* no element of the list equals the dict
TaskRemoves(t) ==
    /\ tasks[t].pc = "remove"
    /\ Scheduled(t)
    /\ IF tasks[t].bounty \in Range(bounties)
       THEN /\ bounties' = ListRemove(bounties, tasks[t].bounty)
            /\ tasks' = [tasks EXCEPT ![t].pc = "save"]
       ELSE /\ tasks' = [tasks EXCEPT ![t] = NoTask]
            /\ UNCHANGED bounties
    /\ UNCHANGED <<file, views, event, sent>>

\* save_bounties(bounties)
TaskSaves(t) ==
    /\ tasks[t].pc = "save"
    /\ Scheduled(t)
    /\ file' = save_bounties(bounties)
    /\ tasks' = [tasks EXCEPT ![t].pc = "send"]
    /\ UNCHANGED <<bounties, views, event, sent>>

\* await message.channel.send(...) completes, and on_message returns
TaskSends(t) ==
    /\ tasks[t].pc = "send"
    /\ Scheduled(t)
    /\ sent' = tasks[t].reply
    /\ tasks' = [tasks EXCEPT ![t] = NoTask]
    /\ UNCHANGED <<bounties, file, views, event>>

(***************************************************************************)
(* The specification                                                       *)
(***************************************************************************)
\* bounties = load_bounties() at import, which returns for each of these
\* files; no view, nothing sent
Init ==
    /\ file \in InitFiles
    /\ bounties = load_bounties(file).value
    /\ views = <<>>
    /\ event = Event("on_ready", <<>>, <<>>, 0)
    /\ sent = NoReply
    /\ tasks = NoTasks

Next ==
    \/ \E m \in Messages : SelfMessage(m) /\ UNCHANGED tasks
    \/ \E m \in Messages : ListBounties(m) /\ Len(views') <= MaxViews /\ UNCHANGED tasks
    \/ \E m \in Messages : RegisterBounty(m) /\ Len(bounties') <= MaxBounties /\ UNCHANGED tasks
    \/ \E m \in Messages : DeleteBounty(m) /\ UNCHANGED tasks
    \/ \E m \in Messages : BountyHelp(m) /\ UNCHANGED tasks
    \/ \E m \in Messages : OtherMessage(m) /\ UNCHANGED tasks
    \/ \E v \in DOMAIN views : previous_page(v) /\ UNCHANGED tasks
    \/ \E v \in DOMAIN views : next_page(v) /\ UNCHANGED tasks

Spec == Init /\ [][Next]_vars

(***************************************************************************)
(* The properties                                                          *)
(***************************************************************************)
Registered == "Bounty registered for"
Deleted    == "Successfully deleted bounty:"

\* the file holds exactly the text that denotes the list in memory
FileHolds(f, data) ==
    /\ f.exists
    /\ Loads(f.content).ok
    /\ Loads(f.content).value = data

Persisted == FileHolds(file, bounties)

\* the step is on_message handling a message of a user
UserMessage(e) == e.handler = "on_message" /\ e.author \in Users

\* as the users typed them: the register commands, by their text
AllTyped == ValidTyped \cup InvalidTyped
TypedTexts == {TypedText(t) : t \in AllTyped}
TypedOf(content) == CHOOSE t \in AllTyped : TypedText(t) = content

\* as the users typed them: the query of each delete command
DeleteWord == <<"b","o","u","n","t","y",">","d","e","l","e","t","e">>
TypedQuery ==
    [c \in DeleteCommands |->
        Strip(SubSeq(Strip(c), Len(DeleteWord) + 1, Len(Strip(c))))]

\* the positions of the requester's records whose song name contains the
\* query, whatever the case of either
MatchingAt(data, requester, query) ==
    {i \in DOMAIN data :
        /\ Contains(Lower(query), Lower(Get(data[i], K_song_name)))
        /\ Get(data[i], K_user) = requester}

Without(data, i) == SubSeq(data, 1, i - 1) \o SubSeq(data, i + 1, Len(data))

\* the records of data that users other than requester submitted, as a bag
OthersBag(data, requester) ==
    LET others == {i \in DOMAIN data : Get(data[i], K_user) # requester}
    IN  [b \in {data[i] : i \in others} |->
            Cardinality({i \in others : data[i] = b})]

\* the step is a register command that got the success confirmation
RegisterSucceeds ==
    /\ UserMessage(event')
    /\ event'.content \in TypedTexts
    /\ sent'.kind = Registered

Last(data) == data[Len(data)]

\* C1: every step that appends to or removes from the list in memory leaves
\* the file holding the whole list, record for record in the same order.
C1_SavedAfterMutation == [][bounties' # bounties => FileHolds(file', bounties')]_vars

C1_Witness ==
    /\ sent.kind = Deleted
    /\ bounties # <<>>
    /\ Persisted

\* C2: a delete command whose query matches exactly one record of the
\* requester removes that record and no other, keeps the rest in order, and
\* persists the result.
C2_DeleteRemovesTheMatch ==
    [][(/\ UserMessage(event')
        /\ event'.content \in DeleteCommands
        /\ TypedQuery[event'.content] # <<>>
        /\ Cardinality(MatchingAt(bounties, event'.author,
                                  TypedQuery[event'.content])) = 1)
       => /\ \E i \in MatchingAt(bounties, event'.author, TypedQuery[event'.content]) :
                bounties' = Without(bounties, i)
          /\ Len(bounties') = Len(bounties) - 1
          /\ FileHolds(file', bounties')]_vars

C2_Witness ==
    /\ sent = Reply(Deleted, <<"a","b"," ","c">>)
    /\ event.author = Al
    /\ \E i \in DOMAIN bounties :
          Get(bounties[i], K_song_name) = <<"A","b">> /\ Get(bounties[i], K_user) = Al

\* C3: a delete command whose query is empty, or matches none or more than
\* one of the requester's records, leaves the list and the file as they were.
C3_DeleteWithoutOneMatch ==
    [][(/\ UserMessage(event')
        /\ event'.content \in DeleteCommands
        /\ \/ TypedQuery[event'.content] = <<>>
           \/ Cardinality(MatchingAt(bounties, event'.author,
                                     TypedQuery[event'.content])) # 1)
       => UNCHANGED <<bounties, file>>]_vars

C3_Witness ==
    /\ sent.kind = "Found multiple bounties matching your query."
    /\ Len(sent.detail) = 2
    /\ Len(bounties) = 2

\* C4: a delete command of a requester removes no record that another user
\* submitted: the bag of the other users' records is the same before and
\* after it.
C4_DeleteSparesOtherUsers ==
    [][(UserMessage(event') /\ event'.content \in DeleteCommands)
       => OthersBag(bounties', event'.author) = OthersBag(bounties, event'.author)]_vars

C4_Witness ==
    /\ sent.kind = Deleted
    /\ event.author = Bo
    /\ \E i \in DOMAIN bounties :
          /\ Get(bounties[i], K_user) = Al
          /\ Get(bounties[i], K_song_name) = sent.detail

\* C5: a register command with fewer than four fields or with an invalid
\* difficulty, target or amount is not confirmed and leaves the list and the
\* file unchanged.
C5_RejectedRegister ==
    [][(/\ UserMessage(event')
        /\ event'.content \in {TypedText(t) : t \in InvalidTyped} \cup TooFewFields)
       => /\ sent'.kind # Registered
          /\ UNCHANGED <<bounties, file>>]_vars

C5_Witness ==
    /\ UserMessage(event)
    /\ event.content \in {TypedText(t) : t \in InvalidTyped}
    /\ sent.kind = "Invalid Target:"
    /\ bounties # <<>>

\* C6: a register command that succeeds appends one record, after the
\* records already there, with the sender's name and the song name typed,
\* and persists the list.
C6_RegisterAppends ==
    [][RegisterSucceeds
       => /\ Len(bounties') = Len(bounties) + 1
          /\ SubSeq(bounties', 1, Len(bounties)) = bounties
          /\ Get(Last(bounties'), K_user) = event'.author
          /\ Get(Last(bounties'), K_song_name) = TypedOf(event'.content).song_name
          /\ FileHolds(file', bounties')]_vars

C6_Witness ==
    /\ sent.kind = Registered
    /\ event.author = Bo
    /\ Len(bounties) = 2
    /\ Get(bounties[1], K_user) = Al

\* a text of digits with at most one "." among them and a digit before it
PlainDecimal(text) ==
    /\ text # <<>>
    /\ text[1] # "."
    /\ \A i \in DOMAIN text : text[i] \in Range(DigitChars) \cup {"."}
    /\ Cardinality({i \in DOMAIN text : text[i] = "."}) <= 1

\* of a plain decimal text: the digits before the "." and those after it
WholeDigits(text) ==
    IF "." \in Range(text) THEN SubSeq(text, 1, FirstIndex(text, {"."}) - 1) ELSE text
FractionDigits(text) ==
    IF "." \in Range(text)
    THEN SubSeq(text, FirstIndex(text, {"."}) + 1, Len(text)) ELSE <<>>

\* the plain decimal text denotes a number of [0, hi]
AtMost(text, hi) ==
    /\ Len(WholeDigits(text)) <= 8
    /\ \/ ToNat(WholeDigits(text)) < hi
       \/ /\ ToNat(WholeDigits(text)) = hi
          /\ \A i \in DOMAIN FractionDigits(text) : FractionDigits(text)[i] = "0"

TargetAsTyped(stored, typed) ==
    /\ stored = typed
    /\ PlainDecimal(stored)
    /\ AtMost(stored, 101)
    /\ Len(FractionDigits(stored)) <= 4

\* C7: the target text a successful register command stores is the target
\* text that was typed, denotes a number of [0, 101] and has at most four
\* digits after the decimal point.
C7_TargetAsTyped ==
    [][RegisterSucceeds
       => TargetAsTyped(Get(Last(bounties'), K_target),
                        TypedOf(event'.content).target)]_vars

AmountStored(stored) ==
    /\ PlainDecimal(stored)
    /\ Len(FractionDigits(stored)) = 2
    /\ AtMost(stored, 1000000)

\* C8: the amount text a successful register command stores has exactly two
\* digits after the decimal point and denotes a number of [0, 1000000].
C8_AmountTwoPlaces ==
    [][RegisterSucceeds => AmountStored(Get(Last(bounties'), K_amount))]_vars

C8_Witness ==
    /\ sent.kind = Registered
    /\ TypedOf(event.content).amount = <<"1",",","0","0","0">>
    /\ Get(Last(bounties), K_amount) = <<"1","0","0","0",".","0","0">>

CanonicalDifficulties ==
    { <<"E","a","s","y">>, <<"B","a","s","i","c">>, <<"A","d","v","a","n","c","e","d">>, <<"E","x","p","e","r","t">>, <<"M","a","s","t","e","r">>, <<"R","e",":","M","a","s","t","e","r">> }

Rendered(view, p, data) ==
    get_page_content([view EXCEPT !.current_page = p], data).rows

\* C10: a view is a snapshot: whatever happens after it was created, each
\* of its pages renders the records it rendered before.
C10_ViewIsSnapshot ==
    [][\A v \in DOMAIN views :
          \A p \in 0 .. (views[v].total_pages - 1) :
             Rendered(views'[v], p, bounties') = Rendered(views[v], p, bounties)]_vars

(***************************************************************************)
(* The specification with a store of several pages                         *)
(***************************************************************************)
MaxStored == 21     \* register commands are dispatched while the list is shorter

\* the i-th dict of a store that earlier register commands built
Stored(i) ==
    NewBounty(<<"s">> \o NatToStr(i), <<"M","a","s","t","e","r">>, Decimal(<<"1","0","0",".","0","0","0","0">>),
              Quantize2(Decimal(<<"1","5","0",".","0","0">>)), Bo)

\* the stores the program starts from: one full page, one record more, and
\* the same one page further
StoredCounts ==
    {MaxStored - BOUNTIES_PER_PAGE - 1, MaxStored - BOUNTIES_PER_PAGE,
     MaxStored - 1, MaxStored}

\* the messages received: one of each command, a message that is none, and
\* one of the bot's own
PagesMessages ==
    { Message(Al, <<"a","q","i","l",">","b","o","u","n","t","y">>),
      Message(Al, <<"b","o","u","n","t","y",">","r","e","g","i","s","t","e","r"," ","A","b"," ","M","a","s","t","e","r"," ","1","0","0",".","0","0","0","0"," ","1","5","0",".","0","0">>),
      Message(Al, <<"b","o","u","n","t","y",">","d","e","l","e","t","e"," ","a","b">>),
      Message(Al, <<"b","o","u","n","t","y",">","h","e","l","p">>),
      Message(Al, <<"h","e","l","l","o">>),
      Message(BotUser, <<"a","q","i","l",">","b","o","u","n","t","y">>) }

InitPages ==
    /\ \E n \in StoredCounts : bounties = [i \in 1 .. n |-> Stored(i)]
    /\ file = save_bounties(bounties)
    /\ views = <<>>
    /\ event = Event("on_ready", <<>>, <<>>, 0)
    /\ sent = NoReply
    /\ tasks = NoTasks

NextPages ==
    \/ \E m \in PagesMessages : SelfMessage(m) /\ UNCHANGED tasks
    \/ \E m \in PagesMessages : ListBounties(m) /\ Len(views') <= MaxViews /\ UNCHANGED tasks
    \/ \E m \in PagesMessages : RegisterBounty(m) /\ Len(bounties') <= MaxStored /\ UNCHANGED tasks
    \/ \E m \in PagesMessages : DeleteBounty(m) /\ UNCHANGED tasks
    \/ \E m \in PagesMessages : BountyHelp(m) /\ UNCHANGED tasks
    \/ \E m \in PagesMessages : OtherMessage(m) /\ UNCHANGED tasks
    \/ \E v \in DOMAIN views : previous_page(v) /\ UNCHANGED tasks
    \/ \E v \in DOMAIN views : next_page(v) /\ UNCHANGED tasks

SpecPages == InitPages /\ [][NextPages]_vars

\* C11: the page index of every view stays within 0 .. total_pages - 1; a
\* click on previous takes one from it unless it is 0, a click on next adds
\* one to it unless it is the last page's, and then it stays.
C11_PageIndexClamped ==
    [][/\ \A v \in DOMAIN views' :
             views'[v].current_page \in 0 .. (views'[v].total_pages - 1)
       /\ \A v \in DOMAIN views :
             /\ event' = Click("previous_page", v)
                => views'[v].current_page =
                      IF views[v].current_page = 0 THEN 0
                      ELSE views[v].current_page - 1
             /\ event' = Click("next_page", v)
                => views'[v].current_page =
                      IF views[v].current_page = views[v].total_pages - 1
                      THEN views[v].current_page
                      ELSE views[v].current_page + 1]_vars

C11_Witness ==
    \E v \in DOMAIN views :
        /\ event = Click("next_page", v)
        /\ views[v].total_pages = 3
        /\ views[v].current_page = 2

\* the least k with k * d >= n
CeilDiv(n, d) == CHOOSE k \in 0 .. n : k * d >= n /\ (k - 1) * d < n

\* the rows of the pages p, p + 1, ... of a view, one after the other
RECURSIVE RowsFrom(_, _, _)
RowsFrom(view, p, data) ==
    IF p >= view.total_pages THEN <<>>
    ELSE Rendered(view, p, data) \o RowsFrom(view, p + 1, data)

\* the row that shows a record whose song name fits its column
RowOf(bounty) ==
    << Get(bounty, K_song_name), Get(bounty, K_difficulty), Get(bounty, K_target),
       Get(bounty, K_amount), Get(bounty, K_user) >>

PagesOf(view, data) ==
    /\ view.total_pages = CeilDiv(Len(data), 10)
    /\ RowsFrom(view, 0, data) = [i \in DOMAIN data |-> RowOf(data[i])]
    /\ \A p \in 0 .. (view.total_pages - 1) : Len(Rendered(view, p, data)) <= 10

\* C12: a view created over N records has ceil(N / 10) pages, and its pages
\* 0 .. total_pages - 1, one after the other, render the N records in
\* store order, each once, at most 10 to a page.
C12_PagesPartitionTheStore ==
    [][Len(views') = Len(views) + 1
       => PagesOf(views'[Len(views')], bounties')]_vars

C12_Witness ==
    /\ event = Message(Al, <<"a","q","i","l",">","b","o","u","n","t","y">>)
    /\ Len(bounties) = 20
    /\ views # <<>>
    /\ views[Len(views)].total_pages = 2

(***************************************************************************)
(* The specification with on_message as interleaved tasks                  *)
(***************************************************************************)
NextTasks ==
    \/ \E m \in TaskMessages :
          TaskCreated(m) /\ Len(bounties) + Cardinality(Registering(tasks')) <= MaxBounties
    \/ \E t \in DOMAIN tasks : TaskReads(t) /\ Len(views') <= MaxViews
    \/ \E t \in DOMAIN tasks : TaskAppends(t)
    \/ \E t \in DOMAIN tasks : TaskRemoves(t)
    \/ \E t \in DOMAIN tasks : TaskSaves(t)
    \/ \E t \in DOMAIN tasks : TaskSends(t)

SpecTasks == Init /\ [][NextTasks]_vars

\* the statements between a task's reading of the list and the end of its save
Mutating == {"append", "remove", "save"}

\* the task's reading of the list still stands: the dict it is about to
\* remove is in the list, and is the requester's one match there
StillMatches(task, data) ==
    /\ task.bounty \in Range(data)
    /\ \E i \in DOMAIN data :
          /\ data[i] = task.bounty
          /\ MatchingAt(data, task.message.author,
                        TypedQuery[task.message.content]) = {i}

\* C13: no two tasks are between reading the list and the end of their save
\* at once, no step of another task changes the list or the file while a
\* task is there, and the dict a task is about to remove is in the list and
\* is still the requester's one match.
C13_MutationsNotInterleaved ==
    [][/\ Cardinality({t \in DOMAIN tasks' : tasks'[t].pc \in Mutating}) <= 1
       /\ \A t \in DOMAIN tasks' :
             tasks'[t].pc = "remove" => StillMatches(tasks'[t], bounties')
       /\ \A t \in DOMAIN tasks :
             (tasks[t].pc \in Mutating /\ <<bounties, file>>' # <<bounties, file>>)
                => tasks'[t] # tasks[t]]_vars

C13_Witness ==
    \E t, u \in DOMAIN tasks :
        /\ tasks[t].pc = "send"
        /\ tasks[t].reply.kind = Deleted
        /\ tasks[u].pc = "remove"
        /\ tasks[u].message.author # tasks[t].message.author

\* C14: for every list the handlers produce, loading the file that saving
\* the list writes gives the list back, record for record and field for
\* field.
C14_SaveLoadRoundTrip ==
    load_bounties(save_bounties(bounties)) = Returned(bounties)

C14_Witness ==
    /\ Len(bounties) = 2
    /\ Get(bounties[1], K_song_name) = <<"a","b"," ","c">>
    /\ Get(bounties[2], K_song_name) = <<"a","\"","\\">>
    /\ load_bounties(file) = Returned(bounties)

(***************************************************************************)
(* The specification of the start of the program                           *)
(***************************************************************************)
\* the text of a saved list
SavedText == Dumps(<<StoredBounty>>)

\* The files the program may find when it starts: none, an empty one, the
\* saved list, the saved list cut short anywhere, and files with a byte
\* that is no character in the encoding open() reads with.
LoadFiles ==
    {NoFile, FileWith(<<>>), FileWith(<<UndecodableByte>>),
     FileWith([SavedText EXCEPT ![Len(SavedText)] = UndecodableByte])}
        \cup {FileWith(SubSeq(SavedText, 1, n)) : n \in 1 .. Len(SavedText)}

\* the module is being imported: nothing is loaded yet
InitLoad ==
    /\ file \in LoadFiles
    /\ bounties = <<>>
    /\ views = <<>>
    /\ event = Event("import", <<>>, <<>>, 0)
    /\ sent = NoReply
    /\ tasks = NoTasks

\* bounties = load_bounties(): the list is loaded and the bot runs, or the
\* exception load_bounties raises ends the import
Import ==
    LET Loaded(outcome) ==
            IF outcome.raised = "None"
            THEN /\ bounties' = outcome.value
                 /\ event' = Event("on_ready", <<>>, <<>>, 0)
            ELSE /\ event' = Event(outcome.raised, <<>>, <<>>, 0)
                 /\ UNCHANGED bounties
    IN  /\ event.handler = "import"
        /\ Loaded(load_bounties(file))
        /\ UNCHANGED <<file, views, sent, tasks>>

NextLoad == Import

SpecLoad == InitLoad /\ [][NextLoad]_vars

\* the file holds no list: it is absent, or its content is no JSON text
Malformed(f) ==
    \/ ~f.exists
    \/ UndecodableByte \in Range(f.content)
    \/ ~Loads(f.content).ok

\* C15: loading never raises: whatever the file, the import ends with the
\* bot running, and with an empty list when the file is absent, empty or
\* malformed.
C15_LoadNeverRaises ==
    event.handler # "import"
        => /\ event.handler = "on_ready"
           /\ Malformed(file) => bounties = <<>>

\* the reply to a register command as typed: that of the first check that
\* fails, of the count of the fields, the difficulty, the target and the
\* amount in this order, or the confirmation
FirstFailure ==
    [c \in TypedTexts \cup TooFewFields |->
        IF c \in TooFewFields THEN Reply("Invalid Format.", <<>>)
        ELSE IF validate_difficulty(TypedOf(c).difficulty) = None
        THEN Reply("Invalid Difficulty.", <<>>)
        ELSE IF validate_target(TypedOf(c).target).error # NoError
        THEN Reply("Invalid Target:", validate_target(TypedOf(c).target).error)
        ELSE IF validate_amount(TypedOf(c).amount).error # NoError
        THEN Reply("Invalid Amount:", validate_amount(TypedOf(c).amount).error)
        ELSE Reply(Registered, TypedOf(c).song_name)]

\* C16: the one reply to a register command is that of the first check
\* that fails, in the order field count, difficulty, target, amount, also
\* when later fields are invalid too.
C16_FirstFailureReported ==
    [][(UserMessage(event') /\ event'.content \in DOMAIN FirstFailure)
       => sent' = FirstFailure[event'.content]]_vars

C16_Witness ==
    /\ UserMessage(event)
    /\ event.content \in TypedTexts
    /\ TypedOf(event.content).difficulty = <<"H","a","r","d">>
    /\ TypedOf(event.content).target = <<"1","0","2">>
    /\ TypedOf(event.content).amount = <<"1","2",".","3","4","5">>
    /\ sent.kind = "Invalid Difficulty."

\* the step handles an event that is neither a register nor a delete
\* command of a user
NeitherRegisterNorDelete(e) ==
    \/ e.handler \in {"previous_page", "next_page"}
    \/ /\ e.handler = "on_message"
       /\ \/ e.author = BotUser
          \/ e.content \in OtherContents

\* C17: a list command, a help command, a message that is no command, a
\* message of the bot itself and a click on previous or next leave the list
\* and the file as they were; and every step leaves the list as it was, or
\* with one record more at its end, or with one record less, the others
\* untouched.
C17_OnlyRegisterAndDeleteWrite ==
    [][/\ NeitherRegisterNorDelete(event') => UNCHANGED <<bounties, file>>
       /\ \/ bounties' = bounties
          \/ Len(bounties') = Len(bounties) + 1
                /\ SubSeq(bounties', 1, Len(bounties)) = bounties
          \/ \E i \in DOMAIN bounties : bounties' = Without(bounties, i)]_vars

C17_Witness ==
    /\ event.handler = "previous_page"
    /\ Len(bounties) = 2
    /\ bounties[1] # bounties[2]
    /\ Persisted

\* C18: in every view, from its creation on, the previous button is
\* disabled exactly on the first page and the next button exactly on the
\* last page.
C18_ButtonsDisabledAtTheEnds ==
    \A v \in DOMAIN views :
        /\ views[v].previous_disabled <=> views[v].current_page = 0
        /\ views[v].next_disabled <=> views[v].current_page = views[v].total_pages - 1

C18_Witness ==
    \E v \in DOMAIN views :
        /\ event = Click("previous_page", v)
        /\ views[v].total_pages = 3
        /\ views[v].current_page = 1
        /\ ~views[v].previous_disabled
        /\ ~views[v].next_disabled

(***************************************************************************)
(* The specification with saves and sends that fail                        *)
(***************************************************************************)
\* What can raise in the register branch after the validation: open() of
\* the file, json.dump into the opened (and so emptied) file, and the send
\* of the reply.
Faults == {"open", "dump", "send"}

\* the register command when its save or its send raises: the except
\* clause sends the "Invalid Format" reply
RegisterBountyFailing(message, fault) ==
    LET Do(r) ==
            /\ sent' = Reply("Invalid Format.", <<>>)
            /\ IF r.accepted
               THEN /\ bounties' = Append(bounties, r.bounty)
                    /\ file' = CASE fault = "open" -> file
                                 [] fault = "dump" -> FileWith(<<>>)
                                 [] fault = "send" -> save_bounties(bounties')
               ELSE /\ fault = "send"
                    /\ UNCHANGED <<bounties, file>>
    IN  /\ Dispatch[message] = "register"
        /\ event' = message
        /\ Do(Registration[message])
        /\ UNCHANGED <<views, tasks>>

NextFaults ==
    \/ \E m \in Messages : SelfMessage(m) /\ UNCHANGED tasks
    \/ \E m \in Messages : ListBounties(m) /\ Len(views') <= MaxViews /\ UNCHANGED tasks
    \/ \E m \in Messages : RegisterBounty(m) /\ Len(bounties') <= MaxBounties /\ UNCHANGED tasks
    \/ \E m \in Messages, fault \in Faults :
          RegisterBountyFailing(m, fault) /\ Len(bounties') <= MaxBounties
    \/ \E m \in Messages : DeleteBounty(m) /\ UNCHANGED tasks
    \/ \E m \in Messages : BountyHelp(m) /\ UNCHANGED tasks
    \/ \E m \in Messages : OtherMessage(m) /\ UNCHANGED tasks
    \/ \E v \in DOMAIN views : previous_page(v) /\ UNCHANGED tasks
    \/ \E v \in DOMAIN views : next_page(v) /\ UNCHANGED tasks

SpecFaults == Init /\ [][NextFaults]_vars

\* C19: for every register command, the list gains a record exactly when
\* the confirmation is sent, and when an error reply is sent, the
\* "Invalid Format" reply after a failed save or send included, the list
\* and the file are as they were before the command.
C19_ReplyAgreesWithStore ==
    [][(UserMessage(event') /\ event'.content \in TypedTexts \cup TooFewFields)
       => /\ Len(bounties') = Len(bounties) + 1 <=> sent'.kind = Registered
          /\ sent'.kind # Registered => UNCHANGED <<bounties, file>>]_vars

\* the finite decimal has a non-zero digit beyond its second fractional one
MoreThanTwoPlaces(d) ==
    /\ d.exp < 0 - 2
    /\ IF (0 - 2) - d.exp > 9 THEN d.int # 0
       ELSE d.int % Pow10((0 - 2) - d.exp) # 0

\* of a register command with the amount typed (its commas removed): when
\* it is confirmed, the amount stored is the same number; and it is not
\* confirmed when the number typed has more than two fractional digits
AmountKept(typed, stored, confirmed) ==
    /\ confirmed => CompareFinite(Decimal(stored), Decimal(typed)) = 0
    /\ (Decimal(typed).special = "" /\ MoreThanTwoPlaces(Decimal(typed)))
          => ~confirmed

\* C20: the amount a successful register command stores is the number that
\* was typed, and a register command whose amount has more than two
\* fractional digits does not succeed.
C20_AmountNotAltered ==
    [][(UserMessage(event') /\ event'.content \in TypedTexts)
       => AmountKept(Remove(TypedOf(event'.content).amount, ","),
                     IF sent'.kind = Registered
                     THEN Get(Last(bounties'), K_amount) ELSE <<"0">>,
                     sent'.kind = Registered)]_vars

=============================================================================
